---- MODULE Spec2Model ----
(***************************************************************************)
(* Model of the physics/numerics engine of ssz-qubits (src/ssz_qubits.py   *)
(* and src/ssz_entanglement.py).                                           *)
(*                                                                         *)
(* The engine is a library of pure functions over Python floats, i.e.      *)
(* IEEE-754 binary64 numbers.  Several properties of the library are       *)
(* properties of rounding (cancellation in D(r1) - D(r2), the product      *)
(* D * (1 + Xi)), so the model computes in binary64: a float is a triple   *)
(* <<s, m, e>> of value (-1)^s * m * 2^e whose significand m has exactly   *)
(* MantBits bits, and every arithmetic operation rounds the exact result   *)
(* to nearest, ties to even, as the hardware does.  Significands are wider *)
(* than the integers of the model checker, so they are kept as sequences   *)
(* of 15-bit limbs, least significant first.                               *)
(*                                                                         *)
(* Intermediate results that are used more than once are passed on as      *)
(* operator arguments (a helper operator per step) rather than named in a  *)
(* LET, which keeps the evaluation cost of the model checker linear.       *)
(*                                                                         *)
(* Results below the normal range are rounded as binary64 rounds them      *)
(* (gradual underflow).  Overflow to infinity is not modelled: the inputs  *)
(* drawn below keep every intermediate result finite.  The sign of a zero  *)
(* is not kept (no operation of the engine observes it), and np.exp is     *)
(* taken to be the correctly rounded exponential.                          *)
(***************************************************************************)
EXTENDS Integers, Sequences, FiniteSets, TLC

(***************************************************************************)
(* Natural numbers of arbitrary size: sequences of limbs in base 2^15,     *)
(* least significant limb first, no leading (high) zero limb; 0 is <<>>.   *)
(***************************************************************************)
LimbBits == 15
Base == 2^LimbBits

RECURSIVE BNorm(_)
BNorm(a) ==
    IF a = <<>> THEN a
    ELSE IF a[Len(a)] = 0 THEN BNorm(SubSeq(a, 1, Len(a) - 1)) ELSE a

Limb(a, i) == IF i <= Len(a) THEN a[i] ELSE 0

RECURSIVE BFromInt(_)
BFromInt(n) == IF n = 0 THEN <<>> ELSE <<n % Base>> \o BFromInt(n \div Base)

RECURSIVE BAddC(_, _, _, _)
BAddC(a, b, i, c) ==
    IF i > Len(a) /\ i > Len(b)
    THEN (IF c = 0 THEN <<>> ELSE <<c>>)
    ELSE LET t == Limb(a, i) + Limb(b, i) + c
         IN  <<t % Base>> \o BAddC(a, b, i + 1, t \div Base)

BAdd(a, b) == BAddC(a, b, 1, 0)

RECURSIVE BSubC(_, _, _, _)
BSubC(a, b, i, br) ==
    IF i > Len(a) THEN <<>>
    ELSE LET t == Limb(a, i) - Limb(b, i) - br
         IN  <<(t + Base) % Base>> \o BSubC(a, b, i + 1, IF t < 0 THEN 1 ELSE 0)

\* a - b for a >= b
BSub(a, b) == BNorm(BSubC(a, b, 1, 0))

RECURSIVE BCmpAt(_, _, _)
BCmpAt(a, b, i) ==
    IF i = 0 THEN 0
    ELSE IF a[i] > b[i] THEN 1
    ELSE IF a[i] < b[i] THEN -1
    ELSE BCmpAt(a, b, i - 1)

\* -1, 0, 1 as a < b, a = b, a > b
BCmp(a, b) ==
    IF Len(a) > Len(b) THEN 1
    ELSE IF Len(a) < Len(b) THEN -1
    ELSE BCmpAt(a, b, Len(a))

RECURSIVE BMulSmallC(_, _, _, _)
BMulSmallC(a, k, i, c) ==
    IF i > Len(a)
    THEN (IF c = 0 THEN <<>> ELSE <<c>>)
    ELSE LET t == a[i] * k + c
         IN  <<t % Base>> \o BMulSmallC(a, k, i + 1, t \div Base)

\* a * k for 0 <= k < Base
BMulSmall(a, k) == IF k = 0 THEN <<>> ELSE BMulSmallC(a, k, 1, 0)

RECURSIVE BMulR(_, _)
BMulR(a, b) ==
    IF b = <<>> THEN <<>>
    ELSE BAdd(BMulSmall(a, b[1]), <<0>> \o BMulR(a, Tail(b)))

BMul(a, b) == IF a = <<>> \/ b = <<>> THEN <<>> ELSE BNorm(BMulR(a, b))

RECURSIVE Zeros(_)
Zeros(n) == IF n = 0 THEN <<>> ELSE <<0>> \o Zeros(n - 1)

\* a * 2^n
BShl(a, n) ==
    IF a = <<>> THEN <<>>
    ELSE Zeros(n \div LimbBits) \o BMulSmall(a, 2^(n % LimbBits))

\* floor(a / 2^n)
BShr(a, n) ==
    LET q == n \div LimbBits
        r == n % LimbBits
        lo == 2^r
        hi == 2^(LimbBits - r)
    IN  IF q >= Len(a) THEN <<>>
        ELSE BNorm([i \in 1..(Len(a) - q) |->
                 (a[i + q] \div lo) + (Limb(a, i + q + 1) % lo) * hi])

RECURSIVE IntBitLen(_)
IntBitLen(n) == IF n = 0 THEN 0 ELSE 1 + IntBitLen(n \div 2)

BitLen(a) == IF a = <<>> THEN 0 ELSE (Len(a) - 1) * LimbBits + IntBitLen(a[Len(a)])

\* bit i (0 = least significant) of a
BBit(a, i) == (Limb(a, (i \div LimbBits) + 1) \div 2^(i % LimbBits)) % 2

\* TRUE iff a is a multiple of 2^n
BLowZero(a, n) ==
    /\ \A i \in 1..(n \div LimbBits) : Limb(a, i) = 0
    /\ Limb(a, (n \div LimbBits) + 1) % 2^(n % LimbBits) = 0

RECURSIVE QFix(_, _, _)
QFix(cur, dn, est) ==
    IF BCmp(BMulSmall(dn, est), cur) > 0 THEN QFix(cur, dn, est - 1) ELSE est

\* floor(cur / dn) for cur < dn * Base, top limb of dn >= Base / 2
QDigit(cur, dn) ==
    IF BCmp(cur, dn) < 0 THEN 0
    ELSE LET n == Len(dn)
             top == Limb(cur, n + 1) * Base + Limb(cur, n)
             q0 == top \div dn[n]
         IN  QFix(cur, dn, IF q0 > Base - 1 THEN Base - 1 ELSE q0)

RECURSIVE BDivR(_, _, _, _, _)
BDivSub(an, dn, i, cur, qd, q) ==
    BDivR(an, dn, i - 1, BSub(cur, BMulSmall(dn, qd)), <<qd>> \o q)

BDivStep(an, dn, i, cur, q) == BDivSub(an, dn, i, cur, QDigit(cur, dn), q)

\* Long division, one limb of an per step, from the top: <<quotient, rest>>
BDivR(an, dn, i, rem, q) ==
    IF i = 0 THEN <<BNorm(q), rem>>
    ELSE BDivStep(an, dn, i, BNorm(<<an[i]>> \o rem), q)

BDivUnshift(qr, sh) == <<qr[1], BShr(qr[2], sh)>>

BDivShifted(an, dn, sh) == BDivUnshift(BDivR(an, dn, Len(an), <<>>, <<>>), sh)

\* <<floor(a / d), a mod d>>, d > 0
BDivMod(a, d) ==
    LET sh == LimbBits * Len(d) - BitLen(d)
    IN  BDivShifted(BShl(a, sh), BShl(d, sh), sh)

RECURSIVE BToInt(_)
BToInt(a) == IF a = <<>> THEN 0 ELSE a[1] + Base * BToInt(Tail(a))

RECURSIVE BSqrtR(_, _)
BSqrtStep(n, x, y) == IF BCmp(y, x) < 0 THEN BSqrtR(n, y) ELSE x

BSqrtR(n, x) == BSqrtStep(n, x, BShr(BAdd(x, BDivMod(n, x)[1]), 1))

\* floor(sqrt(n)) by Newton's iteration from above
BSqrt(n) == IF n = <<>> THEN <<>> ELSE BSqrtR(n, BShl(<<1>>, (BitLen(n) + 1) \div 2))

(***************************************************************************)
(* binary64                                                                *)
(***************************************************************************)
MantBits == 53

\* Exponent of the least subnormal of binary64, 2^MinExp
MinExp == -1074

FZero == <<0, <<>>, 0>>

IsZero(a) == a[2] = <<>>

\* The float of value (-1)^s * n * 2^e, its significand brought to MantBits bits
Norm(s, n, e) ==
    LET d == MantBits - BitLen(n)
    IN  IF n = <<>> THEN FZero
        ELSE IF d >= 0 THEN <<s, BShl(n, d), e - d>>
        ELSE <<s, BShr(n, -d), e - d>>   \* n = 2^MantBits after a carry

\* q, or q + 1 when the discarded part is above one half, or is one half and q is odd
RoundQ(s, q, e, half, rest) ==
    Norm(s, IF half /\ (rest \/ BBit(q, 0) = 1) THEN BAdd(q, <<1>>) ELSE q, e)

\* The number of low bits of n * 2^e that do not fit a float
RoundShift(n, e) ==
    LET sn == BitLen(n) - MantBits
        su == MinExp - e
    IN  IF sn > su THEN sn ELSE su

\* The float nearest to (-1)^s * (n + t) * 2^e, ties to even, where
\* 0 < t < 1 if sticky and t = 0 otherwise (n >= 2^(MantBits+1) if sticky).
\* Below the normal range the result is a multiple of 2^MinExp (gradual
\* underflow).
Round(s, n, e, sticky) ==
    LET sh == RoundShift(n, e)
    IN  IF n = <<>> THEN FZero
        ELSE IF sh <= 0 THEN Norm(s, n, e)
        ELSE IF sh > BitLen(n) THEN FZero
        ELSE RoundQ(s, BShr(n, sh), e + sh, BBit(n, sh - 1) = 1,
                    sticky \/ ~BLowZero(n, sh - 1))

\* Round of a quotient and its rest
RoundQR(s, qr, e) == Round(s, qr[1], e, qr[2] # <<>>)

FNeg(a) == IF IsZero(a) THEN a ELSE <<1 - a[1], a[2], a[3]>>

FAbs(a) == <<0, a[2], a[3]>>

\* -1, 0, 1 as |a| < |b|, |a| = |b|, |a| > |b|
MagCmp(a, b) ==
    IF IsZero(a) THEN (IF IsZero(b) THEN 0 ELSE -1)
    ELSE IF IsZero(b) THEN 1
    ELSE IF a[3] > b[3] THEN 1
    ELSE IF a[3] < b[3] THEN -1
    ELSE BCmp(a[2], b[2])

Sign(a) == IF IsZero(a) THEN 0 ELSE 1 - 2 * a[1]

FCmp(a, b) ==
    IF Sign(a) # Sign(b) THEN (IF Sign(a) > Sign(b) THEN 1 ELSE -1)
    ELSE IF Sign(a) = 0 THEN 0
    ELSE Sign(a) * MagCmp(a, b)

FLt(a, b) == FCmp(a, b) < 0
FLe(a, b) == FCmp(a, b) <= 0
FGt(a, b) == FCmp(a, b) > 0
FGe(a, b) == FCmp(a, b) >= 0

FMul(a, b) ==
    IF IsZero(a) \/ IsZero(b) THEN FZero
    ELSE Round((a[1] + b[1]) % 2, BMul(a[2], b[2]), a[3] + b[3], FALSE)

\* a / b for b # 0
FDiv(a, b) ==
    IF IsZero(a) THEN FZero
    ELSE RoundQR((a[1] + b[1]) % 2, BDivMod(BShl(a[2], MantBits + 2), b[2]),
                 a[3] - b[3] - (MantBits + 2))

\* a + b for |a| >= |b|, both non-zero
FAddOrd(a, b) ==
    LET d == a[3] - b[3]
    IN  IF d > MantBits + 2
        THEN (IF a[1] = b[1] THEN Round(a[1], BShl(a[2], 2), a[3] - 2, TRUE)
              ELSE Round(a[1], BSub(BShl(a[2], 2), <<1>>), a[3] - 2, TRUE))
        ELSE (IF a[1] = b[1] THEN Round(a[1], BAdd(BShl(a[2], d), b[2]), b[3], FALSE)
              ELSE Round(a[1], BSub(BShl(a[2], d), b[2]), b[3], FALSE))

FAdd(a, b) ==
    IF IsZero(a) THEN b
    ELSE IF IsZero(b) THEN a
    ELSE FAddOrd(IF MagCmp(a, b) >= 0 THEN a ELSE b, IF MagCmp(a, b) >= 0 THEN b ELSE a)

FSub(a, b) == FAdd(a, FNeg(b))

\* The float of an integer literal, 0 <= n < 2^31
FInt(n) == Round(0, BFromInt(n), 0, FALSE)

RECURSIVE Pow10(_)
Pow10(k) == IF k = 0 THEN <<1>> ELSE BMulSmall(Pow10(k - 1), 10)

FDecDiv(m, den) ==
    LET S == MantBits + 2 + BitLen(den)
    IN  RoundQR(0, BDivMod(BShl(BFromInt(m), S), den), -S)

\* The float of the decimal literal m * 10^k (correctly rounded, as the
\* interpreter's parser rounds it), 0 < m < 2^31
FDec(m, k) ==
    IF k >= 0 THEN Round(0, BMul(BFromInt(m), Pow10(k)), 0, FALSE)
    ELSE FDecDiv(m, Pow10(-k))

FSqrtR(n, r, e) == Round(0, r, e, BMul(r, r) # n)

FSqrtN(n, e) == FSqrtR(n, BSqrt(n), e)

\* sqrt(a) for a > 0, correctly rounded
FSqrt(a) ==
    LET sh == MantBits + 3 + (a[3] % 2)
    IN  FSqrtN(BShl(a[2], sh), (a[3] - sh) \div 2)

\* Fixed point with FracBits fractional bits, for exp
FracBits == 90
FixOne == BShl(<<1>>, FracBits)
Ln2Fix == <<3790, 24143, 30618, 31289, 1533, 22713>>   \* floor(ln 2 * 2^90)

RECURSIVE ExpTaylor(_, _, _, _, _)
ExpTerm(R, u, n, pos, neg) ==
    IF n % 2 = 1 THEN ExpTaylor(R, u, n + 1, pos, BAdd(neg, u))
    ELSE ExpTaylor(R, u, n + 1, BAdd(pos, u), neg)

\* pos - neg = sum over j of (-R)^j / j!, in fixed point; t is the term j = n - 1
ExpTaylor(R, t, n, pos, neg) ==
    IF t = <<>> THEN BSub(pos, neg)
    ELSE ExpTerm(R, BDivMod(BShr(BMul(t, R), FracBits), BFromInt(n))[1], n, pos, neg)

\* |y| in fixed point
ExpFix(y) ==
    IF y[3] + FracBits >= 0 THEN BShl(y[2], y[3] + FracBits)
    ELSE BShr(y[2], -(y[3] + FracBits))

\* 2^(-k) * exp(-R) for kr = <<k, R>>
ExpScale(kr) ==
    Round(0, ExpTaylor(kr[2], FixOne, 1, FixOne, <<>>), -FracBits - BToInt(kr[1]), TRUE)

\* exp(y) for y <= 0: exp(y) = 2^(-k) * exp(-R) with |y| = k ln 2 + R,
\* rounded to the nearest float; 0 when exp(y) is below every subnormal.
ExpUnderflow == 746
FExpNeg(y) ==
    IF IsZero(y) THEN FInt(1)
    ELSE IF ~FLt(FAbs(y), FInt(ExpUnderflow)) THEN FZero
    ELSE ExpScale(BDivMod(ExpFix(y), Ln2Fix))

RECURSIVE ExpSeries(_, _, _, _)
ExpSeriesAdd(R, u, n, sum) == ExpSeries(R, u, n + 1, BAdd(sum, u))

\* sum over j of R^j / j!, in fixed point; t is the term j = n - 1
ExpSeries(R, t, n, sum) ==
    IF t = <<>> THEN sum
    ELSE ExpSeriesAdd(R, BDivMod(BShr(BMul(t, R), FracBits), BFromInt(n))[1], n, sum)

\* 2^k * exp(R) for kr = <<k, R>>
ExpScaleUp(kr) ==
    Round(0, ExpSeries(kr[2], FixOne, 1, FixOne), BToInt(kr[1]) - FracBits, TRUE)

\* exp(y), rounded to the nearest float (y below the overflow threshold 709.78)
FExp(y) ==
    IF y[1] = 1 \/ IsZero(y) THEN FExpNeg(y)
    ELSE ExpScaleUp(BDivMod(ExpFix(y), Ln2Fix))

F0 == FZero
F1 == FInt(1)
F2 == FInt(2)
F100 == FInt(100)

(***************************************************************************)
(* Physical constants (module level, src/ssz_qubits.py)                    *)
(***************************************************************************)
C == FInt(299792458)
G == FDec(667430, -16)
M_EARTH == FDec(5972, 21)
R_EARTH == FInt(6371000)
PHI == FDiv(FAdd(F1, FSqrt(FInt(5))), F2)
NP_PI == <<0, <<11544, 10376, 2029, 201>>, -51>>   \* 3.141592653589793

(***************************************************************************)
(* Outcome of a call: a returned value or a raised exception               *)
(***************************************************************************)
Val(v) == [tag |-> "value", val |-> v]
Raise(kind) == [tag |-> kind, val |-> F0]
Returned(o) == o.tag = "value"

(***************************************************************************)
(* Core SSZ functions                                                      *)
(***************************************************************************)
\* r_s = 2 * G * M / (C**2)
schwarzschild_radius(M) == FDiv(FMul(FMul(F2, G), M), FMul(C, C))

\* if r <= 0: raise ValueError
RadiusInvalid(r) == FLe(r, F0)

\* Mutant: the cutover compares with >= instead of >
AutoRegime_AtLeast(ratio) == IF FGe(ratio, F100) THEN "weak" ELSE "strong"

\* regime = 'weak' if ratio > 100 else 'strong'
AutoRegime(ratio) == IF FGt(ratio, F100) THEN "weak" ELSE "strong"

\* Mutant: a regime that is not recognised is treated as 'auto'
SelectRegime_UnknownAsAuto(r, r_s, regime) ==
    IF IsZero(r_s) THEN "ZeroDivisionError"
    ELSE IF regime \notin {"weak", "strong"} THEN AutoRegime(FDiv(r, r_s))
    ELSE regime

\* ratio = r / r_s, a ZeroDivisionError when r_s is 0.0; then the regime
\* that the rest of the function computes in
SelectRegime(r, r_s, regime) ==
    IF IsZero(r_s) THEN "ZeroDivisionError"
    ELSE IF regime = "auto" THEN AutoRegime(FDiv(r, r_s))
    ELSE regime

\* Mutant: the operands of the weak-field quotient are swapped, r / (2 * r_s)
XiWeak_Swapped(r, r_s) == FDiv(r, FMul(F2, r_s))

\* r_s / (2 * r)
XiWeak(r, r_s) == FDiv(r_s, FMul(F2, r))

\* 1.0 - np.exp(-PHI * r / r_s)
XiStrong(r, r_s) == FSub(F1, FExpNeg(FDiv(FMul(FNeg(PHI), r), r_s)))

XiInRegime(r, r_s, reg) ==
    IF reg = "ZeroDivisionError" THEN Raise(reg)
    ELSE IF reg = "weak" THEN Val(XiWeak(r, r_s))
    ELSE Val(XiStrong(r, r_s))

XiAt(r, r_s, regime) == XiInRegime(r, r_s, SelectRegime(r, r_s, regime))

\* Mutant: the radius is validated only after r / r_s has been computed
xi_segment_density_LateCheck(r, M, regime) ==
    IF IsZero(schwarzschild_radius(M)) THEN Raise("ZeroDivisionError")
    ELSE IF RadiusInvalid(r) THEN Raise("ValueError")
    ELSE XiAt(r, schwarzschild_radius(M), regime)

xi_segment_density(r, M, regime) ==
    IF RadiusInvalid(r) THEN Raise("ValueError")
    ELSE XiAt(r, schwarzschild_radius(M), regime)

\* Mutant: the sign of the weak-field gradient is dropped
GradWeak_Unsigned(r, r_s) == FDiv(r_s, FMul(F2, FMul(r, r)))

\* -r_s / (2 * r**2)
GradWeak(r, r_s) == FDiv(FNeg(r_s), FMul(F2, FMul(r, r)))

\* (PHI / r_s) * np.exp(-PHI * r / r_s)
GradStrong(r, r_s) == FMul(FDiv(PHI, r_s), FExpNeg(FDiv(FMul(FNeg(PHI), r), r_s)))

GradInRegime(r, r_s, reg) ==
    IF reg = "ZeroDivisionError" THEN Raise(reg)
    ELSE IF reg = "weak" THEN Val(GradWeak(r, r_s))
    ELSE Val(GradStrong(r, r_s))

GradAt(r, r_s, regime) == GradInRegime(r, r_s, SelectRegime(r, r_s, regime))

xi_gradient(r, M, regime) ==
    IF RadiusInvalid(r) THEN Raise("ValueError")
    ELSE GradAt(r, schwarzschild_radius(M), regime)

\* Mutant: the reciprocal is forgotten, 1.0 + xi
DilationOf_NoReciprocal(xi) == IF Returned(xi) THEN Val(FAdd(F1, xi.val)) ELSE xi

\* 1.0 / (1.0 + xi), or the exception that computing xi raised
DilationOf(xi) == IF Returned(xi) THEN Val(FDiv(F1, FAdd(F1, xi.val))) ELSE xi

\* xi = xi_segment_density(r, M); return 1.0 / (1.0 + xi)
ssz_time_dilation(r, M) == DilationOf(xi_segment_density(r, M, "auto"))

\* d1 - d2, or the first exception raised
DifferenceOf(d1, d2) ==
    IF ~Returned(d1) THEN d1
    ELSE IF ~Returned(d2) THEN d2
    ELSE Val(FSub(d1.val, d2.val))

\* return ssz_time_dilation(r1, M) - ssz_time_dilation(r2, M)
ssz_time_dilation_difference(r1, r2, M) ==
    DifferenceOf(ssz_time_dilation(r1, M), ssz_time_dilation(r2, M))

(***************************************************************************)
(* Entities (dataclasses Qubit, QubitPair)                                 *)
(***************************************************************************)
Qubit(id, x, y, z, T2, gate_time) ==
    [id |-> id, x |-> x, y |-> y, z |-> z,
     coherence_time_T2 |-> T2, gate_time |-> gate_time]

QubitPair(a, b) == [qubit_a |-> a, qubit_b |-> b]

\* Defaults of the dataclass fields and of qubit_frequency
DefaultT2 == FDec(100, -6)
DefaultGateTime == FDec(50, -9)
DefaultFrequency == FDec(5, 9)

\* R_EARTH + self.z
radius_from_earth_center(q) == FAdd(R_EARTH, q.z)

(***************************************************************************)
(* src/ssz_entanglement.py                                                 *)
(***************************************************************************)
PhaseDriftOf(delta_D, omega, avg_gate_time) ==
    IF ~Returned(delta_D) THEN delta_D
    ELSE Val([delta_D |-> delta_D.val,
              delta_D_magnitude |-> FAbs(delta_D.val),
              phase_drift_per_gate |->
                  FAbs(FMul(FMul(omega, delta_D.val), avg_gate_time)),
              phase_drift_per_second |-> FAbs(FMul(omega, delta_D.val)),
              omega |-> omega,
              gate_time |-> avg_gate_time])

entangled_pair_phase_drift(pair, qubit_frequency, M) ==
    PhaseDriftOf(
        ssz_time_dilation_difference(radius_from_earth_center(pair.qubit_a),
                                     radius_from_earth_center(pair.qubit_b), M),
        FMul(FMul(F2, NP_PI), qubit_frequency),
        FDiv(FAdd(pair.qubit_a.gate_time, pair.qubit_b.gate_time), F2))

\* np.inf: a value of its own, which no arithmetic of the model consumes
NP_INF == <<0, <<>>, 1>>

\* np.pi / (omega * delta_D) with delta_D = abs(...), np.inf when delta_D == 0,
\* or the exception that the time-dilation difference raised
TSSZOf(delta_D, omega) ==
    IF ~Returned(delta_D) THEN delta_D
    ELSE IF IsZero(delta_D.val) THEN Val(NP_INF)
    ELSE Val(FDiv(NP_PI, FMul(omega, FAbs(delta_D.val))))

characteristic_time_T_SSZ(height_difference, qubit_frequency, M) ==
    TSSZOf(ssz_time_dilation_difference(R_EARTH, FAdd(R_EARTH, height_difference), M),
           FMul(FMul(F2, NP_PI), qubit_frequency))

correction_interval(phase_tolerance, phase_drift_per_gate) ==
    IF IsZero(phase_drift_per_gate) THEN Val(NP_INF)
    ELSE Val(FDiv(phase_tolerance, phase_drift_per_gate))

(***************************************************************************)
(* Per-qubit analysis and gate timing (src/ssz_qubits.py)                  *)
(***************************************************************************)
\* The SegmentAnalysis built from xi and gradient, with d_ssz = 1.0 / (1.0 + xi)
\* and coherence_factor = 1.0 / (1.0 + abs(gradient) * 1e6), or the first
\* exception raised
AnalysisOf(xi, gradient) ==
    IF ~Returned(xi) THEN xi
    ELSE IF ~Returned(gradient) THEN gradient
    ELSE Val([xi |-> xi.val,
              time_dilation |-> DilationOf(xi).val,
              local_time_rate |-> DilationOf(xi).val,
              segment_gradient |-> gradient.val,
              coherence_factor |->
                  FDiv(F1, FAdd(F1, FMul(FAbs(gradient.val), FDec(1, 6))))])

analyze_qubit_segment(qubit, M) ==
    AnalysisOf(xi_segment_density(radius_from_earth_center(qubit), M, "auto"),
               xi_gradient(radius_from_earth_center(qubit), M, "auto"))

\* d_ref / d_qubit, or the first exception raised (d_qubit is computed first)
TimingRatio(d_qubit, d_ref) ==
    IF ~Returned(d_qubit) THEN d_qubit
    ELSE IF ~Returned(d_ref) THEN d_ref
    ELSE Val(FDiv(d_ref.val, d_qubit.val))

gate_timing_correction(qubit, reference_height, M) ==
    TimingRatio(ssz_time_dilation(radius_from_earth_center(qubit), M),
                ssz_time_dilation(FAdd(R_EARTH, reference_height), M))

(***************************************************************************)
(* Decoherence (src/ssz_qubits.py)                                         *)
(***************************************************************************)
E9 == FDec(1, 9)
E15 == FDec(1, 15)
QubitSize == FDec(1, -6)

\* gamma_base * (1 + xi * 1e9)
GammaXi(gamma_base, xi) == FMul(gamma_base, FAdd(F1, FMul(xi, E9)))

\* delta_xi = abs(grad) * qubit_size; gamma_base * delta_xi * 1e15
GammaGrad(gamma_base, grad) ==
    FMul(FMul(gamma_base, FMul(FAbs(grad), QubitSize)), E15)

\* The rate once gamma_base is known; xi and grad are the outcomes of
\* xi_segment_density and xi_gradient (the latter called only when
\* environment_gradient is set)
RateOf(gamma_base, xi, grad, environment_gradient) ==
    IF ~Returned(xi) THEN xi
    ELSE IF ~environment_gradient THEN Val(GammaXi(gamma_base, xi.val))
    ELSE IF ~Returned(grad) THEN grad
    ELSE Val(FAdd(GammaXi(gamma_base, xi.val), GammaGrad(gamma_base, grad.val)))

\* gamma_base = 1.0 / qubit.coherence_time_T2 is a ZeroDivisionError for T2 = 0
ssz_decoherence_rate(qubit, environment_gradient, M) ==
    IF IsZero(qubit.coherence_time_T2) THEN Raise("ZeroDivisionError")
    ELSE RateOf(FDiv(F1, qubit.coherence_time_T2),
                xi_segment_density(radius_from_earth_center(qubit), M, "auto"),
                xi_gradient(radius_from_earth_center(qubit), M, "auto"),
                environment_gradient)

\* 1.0 / gamma
InverseOf(gamma) ==
    IF ~Returned(gamma) THEN gamma
    ELSE IF IsZero(gamma.val) THEN Raise("ZeroDivisionError")
    ELSE Val(FDiv(F1, gamma.val))

effective_T2(qubit, M) == InverseOf(ssz_decoherence_rate(qubit, TRUE, M))

(***************************************************************************)
(* Placement (src/ssz_qubits.py)                                           *)
(***************************************************************************)
\* Mutant: the factor 2 of the weak-field formula is forgotten
OptimalHeight_NoHalf(target_xi, r_s) == FSub(FDiv(r_s, target_xi), R_EARTH)

\* r_optimal = r_s / (2 * target_xi); height = r_optimal - R_EARTH
OptimalHeight(target_xi, r_s) == FSub(FDiv(r_s, FMul(F2, target_xi)), R_EARTH)

\* Mutant: only target_xi == 0 is rejected
optimal_qubit_height_ZeroOnly(target_xi, M) ==
    IF IsZero(target_xi) THEN Raise("ValueError")
    ELSE Val(OptimalHeight(target_xi, schwarzschild_radius(M)))

\* if target_xi <= 0: raise ValueError
optimal_qubit_height(target_xi, M) ==
    IF FLe(target_xi, F0) THEN Raise("ValueError")
    ELSE Val(OptimalHeight(target_xi, schwarzschild_radius(M)))

\* if xi_min <= 0: xi_min = 1e-20
XiFloor(xi_min) == IF FLe(xi_min, F0) THEN FDec(1, -20) ELSE xi_min

\* max(0, h)
MaxZero(h) == IF FGt(h, F0) THEN h ELSE F0

\* r_max = r_s / (2 * xi_min), r_min = r_s / (2 * xi_max);
\* (h_min, h_max) = (max(0, r_min - R_EARTH), r_max - R_EARTH)
ZoneBounds(r_s, xi_min, xi_max) ==
    IF IsZero(xi_max) THEN Raise("ZeroDivisionError")
    ELSE Val(<<MaxZero(FSub(FDiv(r_s, FMul(F2, xi_max)), R_EARTH)),
               FSub(FDiv(r_s, FMul(F2, xi_min)), R_EARTH)>>)

\* xi_min = xi_center - max_xi_variation / 2, xi_max = xi_center + max_xi_variation / 2
ZoneAround(r_s, xi_center, half) ==
    ZoneBounds(r_s, XiFloor(FSub(xi_center, half)), FAdd(xi_center, half))

ZoneOf(xi_center, r_s, half) ==
    IF ~Returned(xi_center) THEN xi_center ELSE ZoneAround(r_s, xi_center.val, half)

segment_coherent_zone(center_height, max_xi_variation, M) ==
    ZoneOf(xi_segment_density(FAdd(R_EARTH, center_height), M, "auto"),
           schwarzschild_radius(M), FDiv(max_xi_variation, F2))

(***************************************************************************)
(* Pairs (src/ssz_qubits.py)                                               *)
(***************************************************************************)
\* np.linalg.norm of the vector (dx, dy, dz): sqrt of the sum of the squares
LinalgNorm(sq) == IF IsZero(sq) THEN F0 ELSE FSqrt(sq)

\* QubitPair.separation
separation(pair) ==
    LinalgNorm(FAdd(FAdd(FMul(FSub(pair.qubit_a.x, pair.qubit_b.x),
                              FSub(pair.qubit_a.x, pair.qubit_b.x)),
                         FMul(FSub(pair.qubit_a.y, pair.qubit_b.y),
                              FSub(pair.qubit_a.y, pair.qubit_b.y))),
                    FMul(FSub(pair.qubit_a.z, pair.qubit_b.z),
                         FSub(pair.qubit_a.z, pair.qubit_b.z))))

\* QubitPair.height_difference
height_difference(pair) == FAbs(FSub(pair.qubit_a.z, pair.qubit_b.z))

\* Mutant: the time dilation factors are added instead of subtracted
MismatchDict_Sum(xi_a, xi_b, d_a, d_b, avg_gate_time) ==
    Val([delta_xi |-> FAbs(FSub(xi_a, xi_b)),
         delta_time_dilation |-> FAbs(FAdd(d_a, d_b)),
         phase_drift_per_gate |-> F0,
         decoherence_enhancement |-> F1,
         time_diff_per_microsecond |-> F0])

\* The mismatch metrics from delta_xi = abs(xi_a - xi_b), delta_d = abs(d_a - d_b)
MismatchDict(xi_a, xi_b, d_a, d_b, avg_gate_time) ==
    Val([delta_xi |-> FAbs(FSub(xi_a, xi_b)),
         delta_time_dilation |-> FAbs(FSub(d_a, d_b)),
         phase_drift_per_gate |->
             FDiv(FMul(FMul(FMul(F2, NP_PI), FAbs(FSub(d_a, d_b))), avg_gate_time),
                  avg_gate_time),
         decoherence_enhancement |-> FExp(FMul(FAbs(FSub(xi_a, xi_b)), E9)),
         time_diff_per_microsecond |-> FMul(FAbs(FSub(d_a, d_b)), FDec(1, -6))])

\* xi_a, xi_b are the outcomes of xi_segment_density at the two radii; the
\* time dilation factors are 1.0 / (1.0 + xi) of the same densities
MismatchOf(xi_a, xi_b, avg_gate_time) ==
    IF ~Returned(xi_a) THEN xi_a
    ELSE IF ~Returned(xi_b) THEN xi_b
    ELSE IF IsZero(avg_gate_time) THEN Raise("ZeroDivisionError")
    ELSE MismatchDict(xi_a.val, xi_b.val,
                      DilationOf(xi_a).val, DilationOf(xi_b).val, avg_gate_time)

qubit_pair_segment_mismatch(pair, M) ==
    MismatchOf(xi_segment_density(radius_from_earth_center(pair.qubit_a), M, "auto"),
               xi_segment_density(radius_from_earth_center(pair.qubit_b), M, "auto"),
               FDiv(FAdd(pair.qubit_a.gate_time, pair.qubit_b.gate_time), F2))

\* Mutant: the two rates are averaged instead of added
PairRate_Mean(gamma_a, gamma_b, delta_xi) ==
    FAdd(FDiv(FAdd(gamma_a, gamma_b), F2), FMul(delta_xi, FDec(1, 12)))

\* gamma_total = gamma_a + gamma_b + mismatch['delta_xi'] * 1e12
PairRate(gamma_a, gamma_b, delta_xi) ==
    FAdd(FAdd(gamma_a, gamma_b), FMul(delta_xi, FDec(1, 12)))

\* 1.0 / gamma_total, or the first exception raised
PairTimeOf(gamma_a, gamma_b, mismatch) ==
    IF ~Returned(gamma_a) THEN gamma_a
    ELSE IF ~Returned(gamma_b) THEN gamma_b
    ELSE IF ~Returned(mismatch) THEN mismatch
    ELSE InverseOf(Val(PairRate(gamma_a.val, gamma_b.val, mismatch.val.delta_xi)))

pair_decoherence_time(pair, M) ==
    PairTimeOf(ssz_decoherence_rate(pair.qubit_a, TRUE, M),
               ssz_decoherence_rate(pair.qubit_b, TRUE, M),
               qubit_pair_segment_mismatch(pair, M))

(***************************************************************************)
(* Coherent-zone membership (src/ssz_entanglement.py)                      *)
(***************************************************************************)
\* min(h_a, h_b)
MinHeight(h_a, h_b) == IF FLt(h_b, h_a) THEN h_b ELSE h_a

\* h_min <= h_a <= h_max and h_min <= h_b <= h_max, or the exception that
\* segment_coherent_zone raised
InZone(zone, h_a, h_b) ==
    IF ~Returned(zone) THEN zone
    ELSE Val(/\ FLe(zone.val[1], h_a) /\ FLe(h_a, zone.val[2])
             /\ FLe(zone.val[1], h_b) /\ FLe(h_b, zone.val[2]))

is_in_coherent_zone(pair, tolerance, M) ==
    InZone(segment_coherent_zone(MinHeight(pair.qubit_a.z, pair.qubit_b.z), tolerance, M),
           pair.qubit_a.z, pair.qubit_b.z)

(***************************************************************************)
(* Arrays (src/ssz_qubits.py)                                              *)
(***************************************************************************)
\* int(np.ceil(np.sqrt(n_qubits)))
CeilSqrt(n) == CHOOSE k \in 0..n : k * k >= n /\ (k = 0 \/ (k - 1) * (k - 1) < n)

\* f"Q{i:03d}"
QubitId(i) ==
    "Q" \o (IF i < 10 THEN "00" ELSE IF i < 100 THEN "0" ELSE "") \o ToString(i)

\* Mutant: the grid is not centred on the origin
GridCoord_Uncentred(k, spacing, n_side) == FMul(FInt(k), spacing)

\* col * spacing - (n_side - 1) * spacing / 2
GridCoord(k, spacing, n_side) ==
    FSub(FMul(FInt(k), spacing), FDiv(FMul(FInt(n_side - 1), spacing), F2))

\* The loop over range(n_qubits): row = i // n_side, col = i % n_side
GridQubits(n, n_side, spacing, base_height) ==
    [i \in 1..n |->
        Qubit(QubitId(i - 1),
              GridCoord((i - 1) % n_side, spacing, n_side),
              GridCoord((i - 1) \div n_side, spacing, n_side),
              base_height, DefaultT2, DefaultGateTime)]

\* spacing = max_separation / n_side is a ZeroDivisionError for n_qubits = 0
optimize_qubit_array(n_qubits, base_height, max_separation) ==
    IF CeilSqrt(n_qubits) = 0 THEN Raise("ZeroDivisionError")
    ELSE Val(GridQubits(n_qubits, CeilSqrt(n_qubits),
                        FDiv(max_separation, FInt(CeilSqrt(n_qubits))), base_height))

\* np.add.reduce over the first i elements (fewer than 8: summed in order)
RECURSIVE NpSum(_, _)
NpSum(xs, i) == IF i = 0 THEN F0 ELSE FAdd(NpSum(xs, i - 1), xs[i])

\* np.mean
NpMean(xs) == FDiv(NpSum(xs, Len(xs)), FInt(Len(xs)))

\* np.std: sqrt(mean(abs(x - x.mean())**2))
NpStd(xs, mean) ==
    LinalgNorm(FDiv(NpSum([i \in 1..Len(xs) |->
                              FMul(FSub(xs[i], mean), FSub(xs[i], mean))], Len(xs)),
                    FInt(Len(xs))))

\* np.min (sign = 1) and np.max (sign = -1) over the first i elements
RECURSIVE NpExtreme(_, _, _)
NpExtreme(xs, i, sign) ==
    IF i = 1 THEN xs[1]
    ELSE IF FCmp(xs[i], NpExtreme(xs, i - 1, sign)) = -sign THEN xs[i]
         ELSE NpExtreme(xs, i - 1, sign)

\* The returned dict
UniformityDict(mean, std, lo, hi) ==
    Val([xi_mean |-> mean, xi_std |-> std, xi_min |-> lo, xi_max |-> hi,
         xi_range |-> FSub(hi, lo),
         uniformity |-> IF FGt(mean, F0) THEN FSub(F1, FDiv(std, mean)) ELSE F0])

UniformityStats(xs, mean) ==
    UniformityDict(mean, NpStd(xs, mean),
                   NpExtreme(xs, Len(xs), 1), NpExtreme(xs, Len(xs), -1))

\* The loop over the qubits stops at the first density that raises
UniformityOf(xis) ==
    IF \E i \in 1..Len(xis) : ~Returned(xis[i])
    THEN xis[CHOOSE i \in 1..Len(xis) :
                 ~Returned(xis[i]) /\ \A j \in 1..(i - 1) : Returned(xis[j])]
    ELSE UniformityStats([i \in 1..Len(xis) |-> xis[i].val],
                         NpMean([i \in 1..Len(xis) |-> xis[i].val]))

array_segment_uniformity(qubits, M) ==
    UniformityOf([i \in 1..Len(qubits) |->
                     xi_segment_density(radius_from_earth_center(qubits[i]), M, "auto")])

(***************************************************************************)
(* Inputs.  Every call is made on arguments drawn from the sets below.     *)
(***************************************************************************)
MaxDecade == 6      \* height offsets 10^0 .. 10^-MaxDecade metres
MaxFactor == 3      \* radii R_EARTH * 1 .. R_EARTH * MaxFactor
NumMasses == 5      \* masses Mass(1) .. Mass(NumMasses)

\* 0, Earth, a stellar black hole (10 solar masses), then 10^33, 10^34, ... kg
Mass(i) ==
    IF i = 1 THEN F0
    ELSE IF i = 2 THEN M_EARTH
    ELSE IF i = 3 THEN FMul(FInt(10), FDec(1989, 27))
    ELSE FDec(1, 29 + i)

Masses == {Mass(i) : i \in 1..NumMasses}

\* Height offsets 0 and 1 m down to 1 micrometre (and below)
Offsets == {F0} \cup {FDec(1, -k) : k \in 0..MaxDecade}

\* Radii at planetary scale
EarthRadii ==
    {FAdd(R_EARTH, d) : d \in Offsets} \cup {FMul(R_EARTH, FInt(j)) : j \in 2..MaxFactor}

\* Radii at given multiples of the Schwarzschild radius of the heavy masses,
\* on both sides of the regime cutover r / r_s = 100
Multiples == {1, 10, 99, 100, 101}
HorizonRadii ==
    {FMul(FInt(k), schwarzschild_radius(Mass(i))) : k \in Multiples, i \in 3..NumMasses}

\* Radii far from the mass: 1 AU, and a radius at which Xi is below half an ulp
\* of 1.0 for every mass drawn
FarRadii == {FDec(1496, 8), FDec(1, 30)}

\* Radii that are not positive
BadRadii == {F0, FNeg(FInt(1000))}

Radii == EarthRadii \cup HorizonRadii \cup FarRadii \cup BadRadii

Regimes == {"auto", "weak", "strong"}

\* Pairs of radii for the difference: any two planetary radii, any two radii
\* near one horizon, and pairs with a radius that is not positive
RadiusPairs ==
    (EarthRadii \X EarthRadii)
    \cup {<<FMul(FInt(j), schwarzschild_radius(Mass(i))),
            FMul(FInt(k), schwarzschild_radius(Mass(i)))>> :
              j \in Multiples, k \in Multiples, i \in 3..NumMasses}
    \cup (BadRadii \X {R_EARTH}) \cup ({R_EARTH} \X BadRadii)

\* Qubit heights: on the surface, above it, and below the centre of the Earth
Heights == Offsets \cup {FNeg(FDec(1, 7))}

QubitAt(id, z) == Qubit(id, F0, F0, z, DefaultT2, DefaultGateTime)

\* Coherence times: none, 13 us, the default 100 us, 1 s
T2Values == {F0, FDec(13, -6), DefaultT2, F1}

\* A laboratory mass of 1 kg next to the masses above
LabMasses == {F1}

\* Qubits on the surface, 1 m above it, and below the centre of the Earth
DecoherenceQubits ==
    {Qubit("Q1", F0, F0, z, t2, DefaultGateTime) :
        z \in {F0, F1, FNeg(FDec(1, 7))}, t2 \in T2Values}

\* Requested segment densities: none, negative, around the value at the
\* Earth's surface (6.96e-10), and larger ones up to the strong field
TargetXis ==
    {F0, FNeg(FDec(1, -10)), FDec(1, -10), FDec(5, -10), FDec(1, -9),
     FDec(1, -3), FDec(1, -1)}

\* Centre heights of a coherent zone: the surface, 1 mm, 100 m, and 10 m below
CenterHeights == {F0, FDec(1, -3), FInt(100), FNeg(FInt(10))}

\* Tolerances 1e-20 .. 1e-16 on the segment density
ZoneTolerances == {FDec(1, -k) : k \in 16..20}

\* Allowed variations of the segment density: none, the tolerances, 1e-15
XiVariations == {F0, FDec(1, -15)} \cup ZoneTolerances

\* Pairs of a qubit on the axis with a qubit beside it, at three heights each
MismatchPairs ==
    {QubitPair(Qubit("Q1", F0, F0, za, DefaultT2, DefaultGateTime),
               Qubit("Q2", x, y, zb, DefaultT2, DefaultGateTime)) :
        za \in {F0, FDec(1, -3), F1}, zb \in {F0, FDec(1, -3), F1},
        x \in {F0, FInt(1000)}, y \in {F0, F1}}

MaxQubits == 13     \* arrays of 0 .. MaxQubits qubits

\* Base heights of an array: the surface and 1 cm above it
BaseHeights == {F0, FDec(1, -2)}

\* Sides of the bounding square: the default 1 mm, and 1 m
MaxSeparations == {FDec(1, -3), F1}

MaxArray == 3     \* analysed arrays have 1 .. MaxArray qubits

\* Arrays laid out by optimize_qubit_array, and two qubits 1 m apart in height
Arrays ==
    {optimize_qubit_array(n, h, FDec(1, -3)).val : n \in 1..MaxArray, h \in BaseHeights}
        \cup {<<QubitAt("Q000", F0), QubitAt("Q001", F1)>>}

Calls ==
    [op : {"xi_segment_density", "xi_gradient"}, r : Radii, M : Masses, regime : Regimes]
    \cup [op : {"ssz_time_dilation"}, r : Radii, M : Masses]
    \cup {[op |-> "ssz_time_dilation_difference", r1 |-> p[1], r2 |-> p[2], M |-> m] :
            p \in RadiusPairs, m \in Masses}
    \cup {[op |-> "entangled_pair_phase_drift",
           pair |-> QubitPair(QubitAt("A", za), QubitAt("B", zb)), M |-> m] :
            za \in Heights, zb \in Heights, m \in Masses}
    \cup [op : {"ssz_decoherence_rate"}, qubit : DecoherenceQubits,
          environment_gradient : BOOLEAN, M : Masses \cup LabMasses]
    \cup [op : {"effective_T2"}, qubit : DecoherenceQubits, M : Masses \cup LabMasses]
    \cup [op : {"optimal_qubit_height"}, target_xi : TargetXis, M : Masses \cup LabMasses]
    \cup [op : {"qubit_pair_segment_mismatch"}, pair : MismatchPairs,
          M : Masses \cup LabMasses]
    \cup [op : {"separation"}, pair : MismatchPairs]
    \cup [op : {"array_segment_uniformity"}, qubits : Arrays, M : Masses]
    \cup [op : {"optimize_qubit_array"}, n_qubits : 0..MaxQubits,
          base_height : BaseHeights, max_separation : MaxSeparations]
    \cup [op : {"segment_coherent_zone"}, center_height : CenterHeights,
          max_xi_variation : XiVariations, M : Masses \cup LabMasses]

(***************************************************************************)
(* State: one call of the library, pending (pc = "ready") or returned      *)
(* (pc = "done") with its outcome in ret; the caller's Qubit objects, the  *)
(* module-level constants, and one earlier call kept with its outcome.     *)
(***************************************************************************)
VARIABLES pc, call, ret, objects, globals, memo

vars == <<pc, call, ret, objects, globals, memo>>

NoOutcome == [tag |-> "none", val |-> F0]

\* The caller's two qubits, as constructed
InitialObjects == [a |-> QubitAt("A", F0), b |-> QubitAt("B", F0)]

\* The module-level names C, G, M_EARTH, R_EARTH, PHI
InitialGlobals == [C |-> C, G |-> G, M_EARTH |-> M_EARTH, R_EARTH |-> R_EARTH, PHI |-> PHI]

NoCall == [op |-> "none"]
NoMemo == [call |-> NoCall, ret |-> NoOutcome, since |-> 0]

Constructed ==
    /\ objects = InitialObjects
    /\ globals = InitialGlobals
    /\ memo = NoMemo

Init ==
    /\ pc = "ready"
    /\ call \in Calls
    /\ ret = NoOutcome
    /\ Constructed

\* Mutant: a call made after others finds its result consumed by them
Finish_Consumed(outcome) ==
    /\ ret' = IF memo.since >= 1 THEN NoOutcome ELSE outcome
    /\ pc' = "done"
    /\ UNCHANGED <<call, objects, globals, memo>>

\* The function returns or raises; it assigns no field of its arguments and
\* no module-level name
Finish(outcome) ==
    /\ ret' = outcome
    /\ pc' = "done"
    /\ UNCHANGED <<call, objects, globals, memo>>

Call_xi_segment_density ==
    /\ pc = "ready" /\ call.op = "xi_segment_density"
    /\ Finish(xi_segment_density(call.r, call.M, call.regime))

Call_xi_gradient ==
    /\ pc = "ready" /\ call.op = "xi_gradient"
    /\ Finish(xi_gradient(call.r, call.M, call.regime))

Call_ssz_time_dilation ==
    /\ pc = "ready" /\ call.op = "ssz_time_dilation"
    /\ Finish(ssz_time_dilation(call.r, call.M))

Call_ssz_time_dilation_difference ==
    /\ pc = "ready" /\ call.op = "ssz_time_dilation_difference"
    /\ Finish(ssz_time_dilation_difference(call.r1, call.r2, call.M))

Call_entangled_pair_phase_drift ==
    /\ pc = "ready" /\ call.op = "entangled_pair_phase_drift"
    /\ Finish(entangled_pair_phase_drift(call.pair, DefaultFrequency, call.M))

Call_ssz_decoherence_rate ==
    /\ pc = "ready" /\ call.op = "ssz_decoherence_rate"
    /\ Finish(ssz_decoherence_rate(call.qubit, call.environment_gradient, call.M))

\* Mutant: the effective T2 is stored back into the qubit
Call_effective_T2_InPlace ==
    /\ pc = "ready" /\ call.op = "effective_T2"
    /\ ret' = effective_T2(call.qubit, call.M)
    /\ pc' = "done"
    /\ objects' = [objects EXCEPT !.b.coherence_time_T2 =
                      effective_T2(call.qubit, call.M).val]
    /\ UNCHANGED <<call, globals, memo>>

Call_effective_T2 ==
    /\ pc = "ready" /\ call.op = "effective_T2"
    /\ Finish(effective_T2(call.qubit, call.M))

Call_optimal_qubit_height ==
    /\ pc = "ready" /\ call.op = "optimal_qubit_height"
    /\ Finish(optimal_qubit_height(call.target_xi, call.M))

Call_segment_coherent_zone ==
    /\ pc = "ready" /\ call.op = "segment_coherent_zone"
    /\ Finish(segment_coherent_zone(call.center_height, call.max_xi_variation, call.M))

Call_qubit_pair_segment_mismatch ==
    /\ pc = "ready" /\ call.op = "qubit_pair_segment_mismatch"
    /\ Finish(qubit_pair_segment_mismatch(call.pair, call.M))

\* Mutant: the separation is the one computed when the pair was constructed
Call_separation_Cached ==
    /\ pc = "ready" /\ call.op = "separation"
    /\ Finish(Val(separation(QubitPair(InitialObjects.a, InitialObjects.b))))

Call_separation ==
    /\ pc = "ready" /\ call.op = "separation"
    /\ Finish(Val(separation(call.pair)))

Call_optimize_qubit_array ==
    /\ pc = "ready" /\ call.op = "optimize_qubit_array"
    /\ Finish(optimize_qubit_array(call.n_qubits, call.base_height, call.max_separation))

Call_array_segment_uniformity ==
    /\ pc = "ready" /\ call.op = "array_segment_uniformity"
    /\ Finish(array_segment_uniformity(call.qubits, call.M))

Next ==
    \/ Call_xi_segment_density
    \/ Call_xi_gradient
    \/ Call_ssz_time_dilation
    \/ Call_ssz_time_dilation_difference
    \/ Call_entangled_pair_phase_drift
    \/ Call_ssz_decoherence_rate
    \/ Call_effective_T2
    \/ Call_optimal_qubit_height
    \/ Call_segment_coherent_zone
    \/ Call_qubit_pair_segment_mismatch
    \/ Call_separation
    \/ Call_optimize_qubit_array
    \/ Call_array_segment_uniformity

Spec == Init /\ [][Next]_vars

(***************************************************************************)
(* The derived operations (pairs, timing, zones, corrections) and the      *)
(* calls with a regime outside the documented three.                       *)
(***************************************************************************)
\* Regime arguments that are none of 'weak', 'strong', 'auto'
UnknownRegimes == {"medium", "WEAK", ""}

\* Phase tolerances 1e-6 and 1e-3 rad
PhaseTolerances == {FDec(1, -6), FDec(1, -3)}

\* Phase drifts per gate: none, the 1.72e-16 rad of 1 mm, and larger ones
PhaseDrifts == {F0, FDec(172, -18), FDec(1, -10), FNeg(FDec(1, -10)), F1}

\* Pairs of qubits at the centre heights of the zones
ZonePairs ==
    {QubitPair(QubitAt("q1", za), QubitAt("q2", zb)) :
        za \in CenterHeights, zb \in CenterHeights}

\* Variations up to and beyond twice the density at the Earth's surface
WideVariations == {FDec(1, -15), FDec(1, -9), FDec(2, -9), FDec(4, -9)}

\* Reference heights of a gate calibration: the surface, 1 m, below the centre
ReferenceHeights == {F0, F1, FNeg(FDec(1, 7))}

\* Qubits on the surface, at the centre of the Earth and below it
BuriedQubits ==
    {Qubit("Q1", F0, F0, z, t2, DefaultGateTime) :
        z \in {F0, FNeg(R_EARTH), FNeg(FDec(1, 7))}, t2 \in T2Values}

\* Pairs of qubits on the surface, 1 m above it and below the centre, with
\* coherence times of 0, 13 us and 100 us
DecoherencePairs ==
    {QubitPair(Qubit("Q1", F0, F0, za, ta, DefaultGateTime),
               Qubit("Q2", F0, F0, zb, tb, DefaultGateTime)) :
        za \in {F0, F1, FNeg(FDec(1, 7))}, zb \in {F0, F1, FNeg(FDec(1, 7))},
        ta \in {F0, FDec(13, -6), DefaultT2}, tb \in {F0, FDec(13, -6), DefaultT2}}

DerivedCalls ==
    [op : {"xi_segment_density", "xi_gradient"}, r : Radii, M : Masses,
     regime : UnknownRegimes]
    \cup [op : {"correction_interval"}, phase_tolerance : PhaseTolerances,
          phase_drift_per_gate : PhaseDrifts]
    \cup [op : {"segment_coherent_zone"}, center_height : CenterHeights,
          max_xi_variation : ZoneTolerances \cup WideVariations,
          M : Masses \cup LabMasses]
    \cup [op : {"analyze_qubit_segment"}, qubit : DecoherenceQubits \cup BuriedQubits,
          M : Masses]
    \cup [op : {"gate_timing_correction"}, qubit : DecoherenceQubits \cup BuriedQubits,
          reference_height : ReferenceHeights, M : Masses]
    \cup [op : {"ssz_decoherence_rate"}, qubit : BuriedQubits,
          environment_gradient : BOOLEAN, M : Masses]
    \cup [op : {"effective_T2"}, qubit : BuriedQubits, M : Masses]
    \cup [op : {"pair_decoherence_time"}, pair : DecoherencePairs,
          M : Masses \cup LabMasses]
    \cup [op : {"is_in_coherent_zone"}, pair : ZonePairs, tolerance : ZoneTolerances,
          M : Masses \cup LabMasses]
    \cup [op : {"characteristic_time_T_SSZ"}, height_difference : Heights,
          M : Masses \cup LabMasses]

InitDerived ==
    /\ pc = "ready"
    /\ call \in DerivedCalls
    /\ ret = NoOutcome
    /\ Constructed

Call_correction_interval ==
    /\ pc = "ready" /\ call.op = "correction_interval"
    /\ Finish(correction_interval(call.phase_tolerance, call.phase_drift_per_gate))

Call_characteristic_time_T_SSZ ==
    /\ pc = "ready" /\ call.op = "characteristic_time_T_SSZ"
    /\ Finish(characteristic_time_T_SSZ(call.height_difference, DefaultFrequency, call.M))

Call_is_in_coherent_zone ==
    /\ pc = "ready" /\ call.op = "is_in_coherent_zone"
    /\ Finish(is_in_coherent_zone(call.pair, call.tolerance, call.M))

Call_analyze_qubit_segment ==
    /\ pc = "ready" /\ call.op = "analyze_qubit_segment"
    /\ Finish(analyze_qubit_segment(call.qubit, call.M))

Call_gate_timing_correction ==
    /\ pc = "ready" /\ call.op = "gate_timing_correction"
    /\ Finish(gate_timing_correction(call.qubit, call.reference_height, call.M))

Call_pair_decoherence_time ==
    /\ pc = "ready" /\ call.op = "pair_decoherence_time"
    /\ Finish(pair_decoherence_time(call.pair, call.M))

NextDerived ==
    \/ Call_xi_segment_density
    \/ Call_xi_gradient
    \/ Call_correction_interval
    \/ Call_characteristic_time_T_SSZ
    \/ Call_is_in_coherent_zone
    \/ Call_segment_coherent_zone
    \/ Call_analyze_qubit_segment
    \/ Call_gate_timing_correction
    \/ Call_ssz_decoherence_rate
    \/ Call_effective_T2
    \/ Call_pair_decoherence_time

SpecDerived == InitDerived /\ [][NextDerived]_vars

(***************************************************************************)
(* A session: the caller keeps two qubits and a pair of them, assigns      *)
(* fields between calls (the dataclasses are not frozen), and calls the    *)
(* library on the objects as they are.  pc is "idle" between calls.        *)
(***************************************************************************)
MaxBetween == 2     \* calls counted since the kept call: 0 .. MaxBetween

\* Assignments qubit.field = value made by the caller
Assignments ==
    {<<"a", "x", F0>>, <<"a", "x", FInt(3)>>,
     <<"b", "z", F0>>, <<"b", "z", FInt(4)>>, <<"b", "z", FNeg(FDec(1, 7))>>}

\* The pair holds references to the two qubits
CurrentPair == QubitPair(objects.a, objects.b)

\* One call of each family on the objects as they are now
SessionCalls ==
    {[op |-> "separation", pair |-> CurrentPair],
     [op |-> "height_difference", pair |-> CurrentPair],
     [op |-> "xi_segment_density", r |-> radius_from_earth_center(objects.b),
      M |-> M_EARTH, regime |-> "auto"],
     [op |-> "ssz_time_dilation_difference", r1 |-> radius_from_earth_center(objects.a),
      r2 |-> radius_from_earth_center(objects.b), M |-> M_EARTH],
     [op |-> "qubit_pair_segment_mismatch", pair |-> CurrentPair, M |-> M_EARTH],
     [op |-> "gate_timing_correction", qubit |-> objects.b, reference_height |-> F0,
      M |-> M_EARTH],
     [op |-> "effective_T2", qubit |-> objects.b, M |-> M_EARTH],
     [op |-> "is_in_coherent_zone", pair |-> CurrentPair, tolerance |-> FDec(1, -18),
      M |-> M_EARTH],
     [op |-> "array_segment_uniformity", qubits |-> <<objects.a, objects.b>>,
      M |-> M_EARTH]}

InitSession ==
    /\ pc = "idle"
    /\ call = NoCall
    /\ ret = NoOutcome
    /\ Constructed

\* qubit.field = value
SetField ==
    /\ pc = "idle"
    /\ \E w \in Assignments : objects' = [objects EXCEPT ![w[1]][w[2]] = w[3]]
    /\ UNCHANGED <<pc, call, ret, globals, memo>>

\* The caller evaluates the arguments and enters the function
Enter ==
    /\ pc = "idle"
    /\ call' \in SessionCalls
    /\ pc' = "ready"
    /\ UNCHANGED <<ret, objects, globals, memo>>

Call_height_difference ==
    /\ pc = "ready" /\ call.op = "height_difference"
    /\ Finish(Val(height_difference(call.pair)))

\* The caller takes the outcome; it may keep the first call it made together
\* with its outcome, and counts the calls completed since
Leave ==
    /\ pc = "done"
    /\ pc' = "idle"
    /\ call' = NoCall
    /\ ret' = NoOutcome
    /\ \/ memo = NoMemo /\ memo' \in {memo, [call |-> call, ret |-> ret, since |-> 0]}
       \/ /\ memo # NoMemo
          /\ memo' = [memo EXCEPT !.since = IF @ < MaxBetween THEN @ + 1 ELSE @]
    /\ UNCHANGED <<objects, globals>>

NextSession ==
    \/ SetField
    \/ Enter
    \/ Leave
    \/ Call_separation
    \/ Call_height_difference
    \/ Call_xi_segment_density
    \/ Call_ssz_time_dilation_difference
    \/ Call_qubit_pair_segment_mismatch
    \/ Call_gate_timing_correction
    \/ Call_effective_T2
    \/ Call_is_in_coherent_zone
    \/ Call_array_segment_uniformity

SpecSession == InitSession /\ [][NextSession]_vars

(***************************************************************************)
(* Properties                                                              *)
(***************************************************************************)
Done(op) == pc = "done" /\ call.op = op

Positive(x) == FGt(x, F0)

Tol12 == FDec(1, -12)
Tol10 == FDec(1, -10)

\* |a - b| <= tol * |b|
Within(a, b, tol) == FLe(FAbs(FSub(a, b)), FMul(tol, FAbs(b)))

\* 2 * r_s * (r1 - r2) / ((2*r1 + r_s) * (2*r2 + r_s))
ClosedForm(r1, r2, r_s) ==
    FDiv(FMul(FMul(F2, r_s), FSub(r1, r2)),
         FMul(FAdd(FMul(F2, r1), r_s), FAdd(FMul(F2, r2), r_s)))

\* d * (1 + xi) is 1 within the relative tolerance 1e-12
ProductIsOne(d, xi) == Returned(xi) /\ Within(FMul(d, FAdd(F1, xi.val)), F1, Tol12)

\* C1: for every r > 0 and every M >= 0 (M = 0 included),
\* ssz_time_dilation(r, M) * (1 + xi_segment_density(r, M)) equals 1
\* (to the tolerance 1e-12 of its specification).
C1_ProductIsOne ==
    (Done("ssz_time_dilation") /\ Positive(call.r) /\ FGe(call.M, F0))
        => /\ Returned(ret)
           /\ ProductIsOne(ret.val, xi_segment_density(call.r, call.M, "auto"))

\* C2: for all r1, r2 > 0 and M > 0, ssz_time_dilation_difference(r1, r2, M)
\* returns the value of the closed form 2 r_s (r1 - r2) / ((2 r1 + r_s)(2 r2 + r_s))
\* (to the relative tolerance 1e-10 of its consistency test).
C2_ClosedForm ==
    (Done("ssz_time_dilation_difference")
        /\ Positive(call.r1) /\ Positive(call.r2) /\ Positive(call.M))
        => /\ Returned(ret)
           /\ Within(ret.val, ClosedForm(call.r1, call.r2, schwarzschild_radius(call.M)),
                     Tol10)

\* C3: for r1 at planetary scale and r2 = r1 + d, d down to 1e-6 m,
\* ssz_time_dilation_difference(r1, r2, M_EARTH) is non-zero and has the sign
\* of r1 - r2.
C3_NonZeroSigned ==
    (Done("ssz_time_dilation_difference")
        /\ call.M = M_EARTH /\ call.r1 = R_EARTH
        /\ call.r2 \in EarthRadii /\ FGt(call.r2, call.r1))
        => Returned(ret) /\ FLt(ret.val, F0)

\* C4: for all r1, r2 > 0 and M > 0, ssz_time_dilation_difference(r1, r2, M) is
\* > 0 when r1 > r2, < 0 when r1 < r2 and 0 when r1 = r2; and
\* entangled_pair_phase_drift reports delta_D > 0 exactly when qubit A is
\* higher than qubit B.
C4_SignOfDifference ==
    /\ (Done("ssz_time_dilation_difference")
            /\ Positive(call.r1) /\ Positive(call.r2) /\ Positive(call.M))
        => Returned(ret) /\ Sign(ret.val) = FCmp(call.r1, call.r2)
    /\ (Done("entangled_pair_phase_drift") /\ Returned(ret))
        => (Positive(ret.val.delta_D) <=> FGt(call.pair.qubit_a.z, call.pair.qubit_b.z))

\* C5: xi_segment_density and xi_gradient raise ValueError for every r <= 0,
\* whatever the mass (0 included) and the regime.
C5_NonPositiveRadiusRejected ==
    ((Done("xi_segment_density") \/ Done("xi_gradient")) /\ FLe(call.r, F0))
        => ret.tag = "ValueError"

C5_Witness ==
    /\ Done("xi_gradient") /\ IsZero(call.r) /\ IsZero(call.M)
    /\ ret.tag = "ValueError"

\* C6: xi_segment_density and xi_gradient have no failure mode other than
\* r <= 0: for every r > 0, every M >= 0 (0 included) and every regime the call
\* returns a value.
C6_NoOtherFailure ==
    ((Done("xi_segment_density") \/ Done("xi_gradient"))
        /\ Positive(call.r) /\ FGe(call.M, F0))
        => Returned(ret)

C8_GradientSigns ==
    (Done("xi_gradient") /\ Positive(call.r) /\ Positive(call.M))
        => /\ Returned(ret)
           /\ call.regime = "weak" => FLe(ret.val, F0)
           /\ call.regime = "strong" => FGe(ret.val, F0)

\* a negative weak-field gradient at the Earth's surface
C8_Witness ==
    /\ Done("xi_gradient") /\ call.regime = "weak"
    /\ call.r = R_EARTH /\ call.M = M_EARTH
    /\ Returned(ret) /\ FLt(ret.val, F0)

\* C9: for every r > 0 and M > 0, ssz_time_dilation(r, M) is in (0, 1],
\* whichever regime the auto-selection picks.
C9_DilationInUnitInterval ==
    (Done("ssz_time_dilation") /\ Positive(call.r) /\ Positive(call.M))
        => Returned(ret) /\ Positive(ret.val) /\ FLe(ret.val, F1)

\* a dilation factor computed in the strong-field regime, below 1
C9_Witness ==
    /\ Done("ssz_time_dilation") /\ Positive(call.r) /\ Positive(call.M)
    /\ AutoRegime(FDiv(call.r, schwarzschild_radius(call.M))) = "strong"
    /\ Returned(ret) /\ FLt(ret.val, F1)

\* Both radii are in the weak-field regime of mass M > 0
BothWeak(r1, r2, M) ==
    /\ Positive(r1) /\ Positive(r2) /\ Positive(M)
    /\ AutoRegime(FDiv(r1, schwarzschild_radius(M))) = "weak"
    /\ AutoRegime(FDiv(r2, schwarzschild_radius(M))) = "weak"

\* C10: for fixed M > 0 and radii r1 <= r2 both in the weak-field regime,
\* ssz_time_dilation(r1, M) <= ssz_time_dilation(r2, M).
C10_WeakFieldMonotone ==
    (Done("ssz_time_dilation_difference")
        /\ FLe(call.r1, call.r2) /\ BothWeak(call.r1, call.r2, call.M))
        => Returned(ret) /\ FLe(ret.val, F0)

\* two weak-field radii whose dilation factors differ
C10_Witness ==
    /\ Done("ssz_time_dilation_difference")
    /\ FLt(call.r1, call.r2) /\ BothWeak(call.r1, call.r2, call.M)
    /\ Returned(ret) /\ FLt(ret.val, F0)

\* C11: for every qubit with coherence_time_T2 > 0 and positive radius from
\* the centre, and every M > 0, effective_T2(qubit, M) is positive and never
\* exceeds qubit.coherence_time_T2.
C11_EffectiveT2Bounded ==
    (Done("effective_T2") /\ Positive(call.qubit.coherence_time_T2)
        /\ Positive(radius_from_earth_center(call.qubit)) /\ Positive(call.M))
        => /\ Returned(ret)
           /\ Positive(ret.val)
           /\ FLe(ret.val, call.qubit.coherence_time_T2)

\* C12: ssz_decoherence_rate and effective_T2 on a qubit with
\* coherence_time_T2 = 0 fail with the InvalidArgument kind (ValueError, as for
\* r <= 0), not with a division by zero and not with a value.
C12_ZeroT2Rejected ==
    ((Done("ssz_decoherence_rate") \/ Done("effective_T2"))
        /\ IsZero(call.qubit.coherence_time_T2))
        => ret.tag = "ValueError"

\* C13: optimal_qubit_height(target_xi, M) raises ValueError for every
\* target_xi <= 0 and every M, and returns a height for every target_xi > 0.
C13_TargetXiValidated ==
    Done("optimal_qubit_height")
        => IF FLe(call.target_xi, F0) THEN ret.tag = "ValueError" ELSE Returned(ret)

\* a negative target rejected, for the mass 0
C13_Witness ==
    /\ Done("optimal_qubit_height") /\ FLt(call.target_xi, F0) /\ IsZero(call.M)
    /\ ret.tag = "ValueError"

Tol8 == FDec(1, -8)

\* The segment density at radius r is target_xi within the relative error 1e-8
DensityIs(r, M, target_xi) ==
    /\ Returned(xi_segment_density(r, M, "auto"))
    /\ Within(xi_segment_density(r, M, "auto").val, target_xi, Tol8)

WeakAndResolved(r, M) ==
    FGe(r, F1) /\ AutoRegime(FDiv(r, schwarzschild_radius(M))) = "weak"

C15_ZoneContainsCenter ==
    (Done("segment_coherent_zone") /\ FGe(call.max_xi_variation, F0)
        /\ Positive(call.M) /\ Returned(ret))
        => /\ FGe(ret.val[1], F0)
           /\ FLe(ret.val[1], call.center_height)
           /\ FLe(call.center_height, ret.val[2])

Tol2 == FDec(1, -2)

\* 4 * epsilon * R_EARTH**2 / r_s
ZoneWidthFormula(epsilon, r_s) ==
    FDiv(FMul(FMul(FInt(4), epsilon), FMul(R_EARTH, R_EARTH)), r_s)

\* C16: for center height 0, Earth mass and every tolerance eps in
\* {1e-20, ..., 1e-16}, segment_coherent_zone(0, eps, M_EARTH) returns an
\* interval whose width h_max - h_min is 4 eps R_EARTH^2 / r_s to within 1 %.
C16_ZoneWidth ==
    (Done("segment_coherent_zone") /\ IsZero(call.center_height)
        /\ call.M = M_EARTH /\ call.max_xi_variation \in ZoneTolerances)
        => /\ Returned(ret)
           /\ Within(FSub(ret.val[2], ret.val[1]),
                     ZoneWidthFormula(call.max_xi_variation, schwarzschild_radius(M_EARTH)),
                     Tol2)

SameHeight(pair) == pair.qubit_a.z = pair.qubit_b.z

SamePlace(pair) ==
    /\ SameHeight(pair)
    /\ pair.qubit_a.x = pair.qubit_b.x /\ pair.qubit_a.y = pair.qubit_b.y

\* C17: for every QubitPair whose qubits have the same z (whatever x and y),
\* qubit_pair_segment_mismatch reports delta_xi = 0 and
\* delta_time_dilation = 0 exactly; if x and y are equal too,
\* QubitPair.separation is 0.
C17_SameHeightNoMismatch ==
    /\ (Done("qubit_pair_segment_mismatch") /\ SameHeight(call.pair) /\ Returned(ret))
        => IsZero(ret.val.delta_xi) /\ IsZero(ret.val.delta_time_dilation)
    /\ (Done("separation") /\ SamePlace(call.pair)) => IsZero(ret.val)

\* two qubits 1 m above the surface, 1 km apart, without mismatch
C17_Witness ==
    /\ Done("qubit_pair_segment_mismatch") /\ SameHeight(call.pair)
    /\ ~SamePlace(call.pair) /\ call.pair.qubit_a.z = F1 /\ call.M = M_EARTH
    /\ Returned(ret)
    /\ IsZero(ret.val.delta_xi) /\ IsZero(ret.val.delta_time_dilation)

\* All qubits of the array are at one height
UniformArray(qubits) == \A i \in 1..Len(qubits) : qubits[i].z = qubits[1].z

\* C18: for every non-empty array whose qubits all have the same height (every
\* single-qubit array, every array laid out by optimize_qubit_array),
\* array_segment_uniformity returns xi_std = 0, xi_range = 0,
\* xi_min = xi_max = xi_mean and uniformity = 1.0.
C18_UniformArrayExact ==
    (Done("array_segment_uniformity") /\ UniformArray(call.qubits) /\ Returned(ret))
        => /\ ret.val.xi_std = F0
           /\ ret.val.xi_range = F0
           /\ ret.val.xi_min = ret.val.xi_max
           /\ ret.val.xi_max = ret.val.xi_mean
           /\ ret.val.uniformity = F1

\* The coordinate c is inside the origin-centred interval of length side
InsideSquare(c, side) == FLe(FAbs(c), FDiv(side, F2))

\* C19: for every n >= 1, base_height and max_separation > 0,
\* optimize_qubit_array(n, base_height, max_separation) returns exactly n
\* qubits with pairwise distinct ids and pairwise distinct (x, y) positions,
\* each with z = base_height and with x and y inside the origin-centred square
\* of side max_separation.
C19_GridLayout ==
    (Done("optimize_qubit_array") /\ call.n_qubits >= 1 /\ Positive(call.max_separation))
        => /\ Returned(ret)
           /\ Len(ret.val) = call.n_qubits
           /\ \A i \in 1..Len(ret.val) :
                /\ ret.val[i].z = call.base_height
                /\ InsideSquare(ret.val[i].x, call.max_separation)
                /\ InsideSquare(ret.val[i].y, call.max_separation)
                /\ \A j \in 1..Len(ret.val) :
                     i # j => /\ ret.val[i].id # ret.val[j].id
                              /\ <<ret.val[i].x, ret.val[i].y>> # <<ret.val[j].x, ret.val[j].y>>

\* an array that does not fill its grid: 7 qubits on a 3 x 3 grid
C19_Witness ==
    /\ Done("optimize_qubit_array") /\ call.n_qubits = 7 /\ Returned(ret)
    /\ Len(ret.val) = 7
    /\ ret.val[7].id = "Q006"
    /\ ret.val[7].x = ret.val[1].x /\ FGt(ret.val[7].y, ret.val[1].y)

\* C20: in the array returned by optimize_qubit_array(n, base_height,
\* max_separation), no two qubits are farther apart than max_separation, for
\* every n >= 1.
C20_SeparationBounded ==
    (Done("optimize_qubit_array") /\ call.n_qubits >= 1 /\ Returned(ret))
        => \A i, j \in 1..Len(ret.val) :
              FLe(separation(QubitPair(ret.val[i], ret.val[j])), call.max_separation)

C22_ArgumentsUntouched ==
    [][pc = "ready" => (objects' = objects /\ globals' = globals /\ call' = call)]_vars

\* a call that ended in an error on a qubit whose fields were assigned before
C22_Witness ==
    /\ Done("effective_T2") /\ ret = Raise("ValueError")
    /\ objects.b.z = FNeg(FDec(1, 7)) /\ call.qubit = objects.b
    /\ globals = InitialGlobals

\* sqrt(dx**2 + dy**2 + dz**2) of two qubits
Distance(p, q) ==
    LinalgNorm(FAdd(FAdd(FMul(FSub(p.x, q.x), FSub(p.x, q.x)),
                         FMul(FSub(p.y, q.y), FSub(p.y, q.y))),
                    FMul(FSub(p.z, q.z), FSub(p.z, q.z))))

\* C23: QubitPair.separation and QubitPair.height_difference are recomputed on
\* every access: after any sequence of changes to the fields of the two
\* qubits they equal the Euclidean distance and |z_a - z_b| of the qubits'
\* current field values, never of earlier ones.
C23_RecomputedOnAccess ==
    /\ Done("separation") => ret = Val(Distance(objects.a, objects.b))
    /\ Done("height_difference") => ret = Val(FAbs(FSub(objects.a.z, objects.b.z)))

\* the separation of a 3-4-5 triangle, after both qubits were moved
C23_Witness ==
    /\ Done("separation")
    /\ objects.a.x = FInt(3) /\ objects.b.z = FInt(4)
    /\ ret = Val(FInt(5))

\* C24: the phase_drift_per_gate of qubit_pair_segment_mismatch is the phase
\* accrued in one gate, omega * |Delta D| * t_gate with omega = 2*pi*5 GHz and
\* t_gate the average gate time: it equals the phase_drift_per_gate that
\* entangled_pair_phase_drift returns for the same pair at its default
\* frequency.
C24_PhasePerGate ==
    (Done("qubit_pair_segment_mismatch") /\ Returned(ret))
        => Within(ret.val.phase_drift_per_gate,
                  entangled_pair_phase_drift(call.pair, DefaultFrequency,
                                             call.M).val.phase_drift_per_gate,
                  Tol10)

\* the pair time is at most the effective T2 of the qubit
AtMostEffectiveT2(qubit) ==
    Returned(effective_T2(qubit, call.M)) /\ FLe(ret.val, effective_T2(qubit, call.M).val)

\* C29: an entangled pair never decoheres more slowly than either of its
\* qubits: for qubits with T2 > 0 and positive radii, pair_decoherence_time is
\* at most the effective_T2 of qubit_a and of qubit_b, and it is unchanged
\* when qubit_a and qubit_b are swapped.
C29_PairNotSlower ==
    (/\ Done("pair_decoherence_time") /\ Returned(ret)
     /\ Positive(call.pair.qubit_a.coherence_time_T2)
     /\ Positive(call.pair.qubit_b.coherence_time_T2)
     /\ Positive(radius_from_earth_center(call.pair.qubit_a))
     /\ Positive(radius_from_earth_center(call.pair.qubit_b)))
        => /\ AtMostEffectiveT2(call.pair.qubit_a)
           /\ AtMostEffectiveT2(call.pair.qubit_b)
           /\ ret = pair_decoherence_time(
                        QubitPair(call.pair.qubit_b, call.pair.qubit_a), call.M)

\* a pair of qubits with different coherence times at different heights
C29_Witness ==
    /\ Done("pair_decoherence_time") /\ Returned(ret) /\ call.M = M_EARTH
    /\ call.pair.qubit_a.z = F0 /\ call.pair.qubit_b.z = F1
    /\ call.pair.qubit_a.coherence_time_T2 = DefaultT2
    /\ call.pair.qubit_b.coherence_time_T2 = FDec(13, -6)
    /\ FLt(ret.val, FDec(13, -6))

\* C30: a regime argument that is none of 'weak', 'strong', 'auto' is not
\* rejected: for every r > 0 and M > 0, xi_segment_density and xi_gradient
\* return exactly the strong-field result, with no error and no auto-selection.
C30_UnknownRegimeIsStrong ==
    (/\ pc = "done" /\ call.op \in {"xi_segment_density", "xi_gradient"}
     /\ call.regime \notin Regimes /\ Positive(call.r) /\ Positive(call.M))
        => ret = IF call.op = "xi_segment_density"
                 THEN Val(XiStrong(call.r, schwarzschild_radius(call.M)))
                 ELSE Val(GradStrong(call.r, schwarzschild_radius(call.M)))

\* an unknown regime at the Earth's surface, where 'auto' selects the weak field
C30_Witness ==
    /\ Done("xi_segment_density") /\ call.regime = "medium"
    /\ call.r = R_EARTH /\ call.M = M_EARTH
    /\ Returned(ret) /\ ret.val = F1
    /\ AutoRegime(FDiv(call.r, schwarzschild_radius(call.M))) = "weak"

\* C25: is_in_coherent_zone returns True for every pair whose two qubits are
\* at the same height z, for every z (also below the reference surface), every
\* tolerance > 0 and every M > 0.
C25_SameHeightInZone ==
    (/\ Done("is_in_coherent_zone") /\ SameHeight(call.pair)
     /\ Positive(call.tolerance) /\ Positive(call.M))
        => ret = Val(TRUE)

\* C26: input validation precedes every other computation: for a qubit whose
\* radius from centre (R_EARTH + z) is <= 0, ssz_decoherence_rate, effective_T2,
\* analyze_qubit_segment and gate_timing_correction end in ValueError whatever
\* the qubit's other fields are (also coherence_time_T2 = 0), never in another
\* fault.
C26_ValidationFirst ==
    (/\ pc = "done"
     /\ call.op \in {"ssz_decoherence_rate", "effective_T2",
                     "analyze_qubit_segment", "gate_timing_correction"}
     /\ RadiusInvalid(radius_from_earth_center(call.qubit)))
        => ret = Raise("ValueError")

\* h_max - h_min
ZoneWidth(zone) == FSub(zone[2], zone[1])

\* the zone is strictly wider than the zone returned
StrictlyWider(zone) == Returned(zone) /\ FGt(ZoneWidth(zone.val), ZoneWidth(ret.val))

\* C27: for fixed center_height >= 0 and M > 0 the width h_max - h_min of
\* segment_coherent_zone is strictly increasing in max_xi_variation: for all
\* 0 < v1 < v2 the zone for v2 is strictly wider than the zone for v1, also
\* when v/2 reaches or exceeds the segment density at the centre.
C27_WidthIncreasing ==
    (/\ Done("segment_coherent_zone") /\ Returned(ret)
     /\ FGe(call.center_height, F0) /\ Positive(call.M)
     /\ Positive(call.max_xi_variation))
        => \A v \in ZoneTolerances \cup WideVariations :
              FGt(v, call.max_xi_variation)
                  => StrictlyWider(segment_coherent_zone(call.center_height, v, call.M))

\* C28: correction_interval never divides by zero: for a phase drift per gate
\* of 0 it returns +infinity without raising, otherwise phase_tolerance /
\* phase_drift_per_gate; likewise characteristic_time_T_SSZ returns +infinity
\* when the height difference is 0.
C28_NoDivisionByZero ==
    /\ Done("correction_interval")
         => ret = IF IsZero(call.phase_drift_per_gate) THEN Val(NP_INF)
                  ELSE Val(FDiv(call.phase_tolerance, call.phase_drift_per_gate))
    /\ (Done("characteristic_time_T_SSZ") /\ IsZero(call.height_difference))
         => ret = Val(NP_INF)

====
